---------------------------- MODULE Spec2Model ----------------------------
(***************************************************************************)
(* The escape-time animation page (src/App/root/pages/demos/animation.py)  *)
(* and the button actions of the exercise pages that call the remote AI    *)
(* service (src/App/root/pages/exercises/).                                *)
(*                                                                         *)
(* Numbers.  The page computes with IEEE doubles; the model computes on    *)
(* the integer lattice: a complex number is a Gaussian integer, so         *)
(* z*z + c and the test |z| > 2 are exact, and np.linspace rounds each     *)
(* sample to the nearest lattice point.  The angle a of a frame is kept in *)
(* quarter turns (4*pi is 8 of them), where exp(1j*a) is exact.            *)
(* The quotient n_matrix / n_matrix.max() is kept as a fraction.           *)
(***************************************************************************)
EXTENDS Integers, Sequences, FiniteSets

VARIABLES
    pc,          \* position of the script: "frame" (line 25), "L38", "L39", "L40",
                 \* "L43", "L46", "done"; "field": before a frame body run for a given c
    iterations,  \* line 9, the "Level of detail" slider
    separation,  \* line 10, the "Separation" slider
    x, y,        \* lines 22-23, the grid axes
    frame_num,   \* line 25, -1 while the for loop has not bound it
    c,           \* line 31
    z,           \* line 32
    c_matrix,    \* line 33
    m_matrix,    \* line 34
    n_matrix,    \* line 35
    i,           \* line 37
    image,       \* line 19 / 43, what the image placeholder shows (<<>>: empty)
    displayed,   \* history: the frame numbers handed to image.image, in order
    iters_done,  \* history: loop bodies completed since the arrays were allocated
    progress,    \* history: the values handed to progress_bar.progress, in order
    frame_text,  \* line 18 / 28 / 47, the k of "Frame k/100" (0: empty)
    \* one button action of an exercise page, and the wrapper call it is in
    ai_action,     \* the action that runs ("none": no exercise page runs)
    ai_pc,         \* position in the action and in the wrapper it called
    ai_wrapper,    \* the wrapper being or last called
    ai_requests,   \* requests issued by the current wrapper invocation
    ai_errors,     \* st.error calls made inside the current wrapper invocation
    ai_result,     \* what the current wrapper invocation returned
    ai_raised,     \* an exception left a wrapper and reached the page script
    ai_events,     \* history: requests, failures, displays and notices of the action
    session_state, \* st.session_state of the prototyping page
    ss_before,     \* history: st.session_state when the button was pressed
    \* the Transcription & Translation page and its working directory
    temp_audio,    \* the directory temp_audio: [present, files]
    sess           \* the script run of each browser session

animVars == <<pc, iterations, separation, x, y, frame_num, c, z, c_matrix,
              m_matrix, n_matrix, i, image, displayed, iters_done, progress,
              frame_text>>

aiVars == <<ai_action, ai_pc, ai_wrapper, ai_requests, ai_errors, ai_result,
            ai_raised, ai_events, session_state, ss_before>>

whisperVars == <<temp_audio, sess>>

pageVars == <<aiVars, whisperVars>>

vars == <<animVars, pageVars>>

----------------------------------------------------------------------------
(* Sizes.  The page uses m, n, s = 960, 640, 400 and a slider up to 20.    *)

m == 5
n == 3
s == 2
IterationsSliderMin == 2
IterationsSliderMax == 4
SeparationSliderMin == 1
SeparationSliderMax == 2
NumFrames == 100
QuarterTurns == 8
CMax == 2

----------------------------------------------------------------------------
(* Complex arithmetic on the lattice.                                      *)

Cx(re, im) == [re |-> re, im |-> im]

CAdd(a, b) == Cx(a.re + b.re, a.im + b.im)

CMul(a, b) == Cx(a.re * b.re - a.im * b.im, a.re * b.im + a.im * b.re)

\* AbsGt2 with the square of the imaginary part forgotten
AbsGt2_Typo(w) == w.re * w.re + w.im > 4

\* np.abs(z) > 2
AbsGt2(w) == w.re * w.re + w.im * w.im > 4

\* a / b rounded to the nearest lattice point (b > 0)
RoundDiv(a, b) == (2 * a + b) \div (2 * b)

\* np.linspace(start, stop, num=num)
Linspace(start, stop, num) ==
    [k \in 0 .. num - 1 |->
        IF num = 1 THEN start ELSE start + RoundDiv(k * (stop - start), num - 1)]

\* np.exp(1j * a), a in quarter turns
ExpI(a) ==
    CASE a % 4 = 0 -> Cx(1, 0)
      [] a % 4 = 1 -> Cx(0, 1)
      [] a % 4 = 2 -> Cx(-1, 0)
      [] OTHER     -> Cx(0, -1)

\* line 22
AxisX == Linspace(-(m \div s), m \div s, m)

\* line 23
AxisY == Linspace(-(n \div s), n \div s, n)

\* line 25: the a of frame k
FrameAngle(k) == Linspace(0, QuarterTurns, NumFrames)[k]

\* line 31
FrameC(sep, a) == CMul(Cx(sep, 0), ExpI(a))

Rows == 0 .. n - 1
Cols == 0 .. m - 1
Grid == Rows \X Cols

----------------------------------------------------------------------------
(* The array statements of the frame body.  Each takes and returns arrays  *)
(* (functions over a set of grid positions) so that it applies to the      *)
(* whole grid and to any part of it alike.                                 *)

\* AllocZ hoisted out of the frame loop: the array of the frame before is reused
AllocZ_Stale(xs, ys, ps) ==
    IF z = <<>>
      THEN [p \in ps |-> CAdd(Cx(xs[p[2]], 0), CMul(Cx(0, 1), Cx(ys[p[1]], 0)))]
      ELSE z

\* line 32: np.tile(x, (n, 1)) + 1j * np.tile(y, (1, m)) over the positions ps
AllocZ(xs, ys, ps) ==
    [p \in ps |-> CAdd(Cx(xs[p[2]], 0), CMul(Cx(0, 1), Cx(ys[p[1]], 0)))]

\* line 33
AllocC(cc, ps) == [p \in ps |-> cc]

\* line 34
AllocM(ps) == [p \in ps |-> TRUE]

\* line 35
AllocN(ps) == [p \in ps |-> 0]

\* line 38: z[m_matrix] = z[m_matrix] * z[m_matrix] + c_matrix[m_matrix]
StepZ(zz, mm, cm) ==
    [p \in DOMAIN zz |-> IF mm[p] THEN CAdd(CMul(zz[p], zz[p]), cm[p]) ELSE zz[p]]

\* StepM with the comparison flipped
StepM_Flipped(zz, mm) ==
    [p \in DOMAIN mm |-> IF ~AbsGt2(zz[p]) THEN FALSE ELSE mm[p]]

\* StepM stopping the whole array as soon as one point has escaped
StepM_Global(zz, mm) ==
    [p \in DOMAIN mm |-> IF \E q \in DOMAIN zz : AbsGt2(zz[q]) THEN FALSE ELSE mm[p]]

\* line 39: m_matrix[np.abs(z) > 2] = False
StepM(zz, mm) ==
    [p \in DOMAIN mm |-> IF AbsGt2(zz[p]) THEN FALSE ELSE mm[p]]

\* StepN without the mask
StepN_Unmasked(nn, mm, k) == [p \in DOMAIN nn |-> k]

\* StepN counting iterations from 1
StepN_OneBased(nn, mm, k) ==
    [p \in DOMAIN nn |-> IF mm[p] THEN k + 1 ELSE nn[p]]

\* line 40: n_matrix[m_matrix] = i
StepN(nn, mm, k) ==
    [p \in DOMAIN nn |-> IF mm[p] THEN k ELSE nn[p]]

\* LoopDone running the loop body once more (range(iterations + 1))
LoopDone_Late(k, iters) == k >= iters

\* LoopDone leaving the loop one iteration early
LoopDone_Early(k, iters) == k + 2 >= iters

\* line 37: range(iterations) is exhausted after the body ran with i = k
LoopDone(k, iters) == k + 1 >= iters

\* n_matrix.max()
ArrayMax(nn) == CHOOSE v \in {nn[p] : p \in DOMAIN nn} : \A q \in DOMAIN nn : nn[q] <= v

\* a / b on floats, as a fraction; 0/0 is nan, kept as 0/0
Quot(a, b) == [num |-> a, den |-> b]

\* OneMinus with the operands swapped
OneMinus_Swapped(q) == IF q.den = 0 THEN q ELSE [num |-> q.num - q.den, den |-> q.den]

\* 1.0 - q
OneMinus(q) == IF q.den = 0 THEN q ELSE [num |-> q.den - q.num, den |-> q.den]

\* line 43: 1.0 - (n_matrix / n_matrix.max())
Normalize(nn) == [p \in DOMAIN nn |-> OneMinus(Quot(nn[p], ArrayMax(nn)))]

----------------------------------------------------------------------------
(* Each page is a script of its own: while one is followed the others rest. *)

\* no exercise page action runs
AIIdle ==
    /\ ai_action = "none"
    /\ ai_pc = "idle"
    /\ ai_wrapper = "none"
    /\ ai_requests = 0
    /\ ai_errors = 0
    /\ ai_result = "unset"
    /\ ai_raised = FALSE
    /\ ai_events = <<>>
    /\ session_state =
          [game_title |-> "unset", game_genre |-> "unset", game_summary |-> "unset",
           generated_image_url |-> "unset"]
    /\ ss_before = session_state

\* no session has the Transcription & Translation page open
WhisperIdle ==
    /\ temp_audio = [present |-> FALSE, files |-> {}]
    /\ sess = <<>>

PagesIdle == AIIdle /\ WhisperIdle

\* the animation page is not open
AnimIdle ==
    /\ pc = "idle"
    /\ iterations = IterationsSliderMin
    /\ separation = SeparationSliderMin
    /\ x = AxisX
    /\ y = AxisY
    /\ frame_num = -1
    /\ c = Cx(0, 0)
    /\ z = <<>>
    /\ c_matrix = <<>>
    /\ m_matrix = <<>>
    /\ n_matrix = <<>>
    /\ i = 0
    /\ image = <<>>
    /\ displayed = <<>>
    /\ iters_done = 0
    /\ progress = <<0>>
    /\ frame_text = 0

----------------------------------------------------------------------------
(* The script.                                                             *)

\* lines 9-23: the sliders are read, the placeholders created, the axes built
Start(it, sep) ==
    /\ pc = "frame"
    /\ iterations = it
    /\ separation = sep
    /\ x = AxisX
    /\ y = AxisY
    /\ frame_num = -1
    /\ c = Cx(0, 0)
    /\ z = <<>>
    /\ c_matrix = <<>>
    /\ m_matrix = <<>>
    /\ n_matrix = <<>>
    /\ i = 0
    /\ image = <<>>
    /\ displayed = <<>>
    /\ iters_done = 0
    /\ progress = <<0>>
    /\ frame_text = 0

Init ==
    \E it \in IterationsSliderMin .. IterationsSliderMax :
    \E sep \in SeparationSliderMin .. SeparationSliderMax :
        Start(it, sep) /\ PagesIdle

\* lines 32-35 and the head of the loop of line 37
AllocArrays ==
    /\ z' = AllocZ(x, y, Grid)
    /\ c_matrix' = AllocC(c', Grid)
    /\ m_matrix' = AllocM(Grid)
    /\ n_matrix' = AllocN(Grid)
    /\ iters_done' = 0
    /\ i' = 0
    /\ pc' = IF iterations > 0 THEN "L38" ELSE "L43"

\* lines 25-37: the next frame is taken from the enumeration
FrameStart ==
    /\ pc = "frame"
    /\ frame_num + 1 < NumFrames
    /\ frame_num' = frame_num + 1
    /\ progress' = Append(progress, frame_num')
    /\ frame_text' = frame_num' + 1
    /\ c' = FrameC(separation, FrameAngle(frame_num'))
    /\ AllocArrays
    /\ UNCHANGED <<iterations, separation, x, y, image, displayed>>
    /\ UNCHANGED pageVars

\* line 38
IterZ ==
    /\ pc = "L38"
    /\ z' = StepZ(z, m_matrix, c_matrix)
    /\ pc' = "L39"
    /\ UNCHANGED <<iterations, separation, x, y, frame_num, c, c_matrix, m_matrix,
                   n_matrix, i, image, displayed, iters_done, progress, frame_text>>
    /\ UNCHANGED pageVars

\* line 39
IterMask ==
    /\ pc = "L39"
    /\ m_matrix' = StepM(z, m_matrix)
    /\ pc' = "L40"
    /\ UNCHANGED <<iterations, separation, x, y, frame_num, c, z, c_matrix,
                   n_matrix, i, image, displayed, iters_done, progress, frame_text>>
    /\ UNCHANGED pageVars

\* line 40, then the loop head of line 37
IterField ==
    /\ pc = "L40"
    /\ n_matrix' = StepN(n_matrix, m_matrix, i)
    /\ iters_done' = iters_done + 1
    /\ IF LoopDone(i, iterations)
         THEN /\ pc' = "L43"
              /\ i' = i
         ELSE /\ pc' = "L38"
              /\ i' = i + 1
    /\ UNCHANGED <<iterations, separation, x, y, frame_num, c, z, c_matrix,
                   m_matrix, image, displayed, progress, frame_text>>
    /\ UNCHANGED pageVars

\* line 43, then the loop head of line 25
Display ==
    /\ pc = "L43"
    /\ image' = Normalize(n_matrix)
    /\ displayed' = Append(displayed, frame_num)
    /\ pc' = IF frame_num + 1 < NumFrames THEN "frame" ELSE "L46"
    /\ UNCHANGED <<iterations, separation, x, y, frame_num, c, z, c_matrix,
                   m_matrix, n_matrix, i, iters_done, progress, frame_text>>
    /\ UNCHANGED pageVars

\* lines 46-52
Finish ==
    /\ pc = "L46"
    /\ frame_text' = 0
    /\ pc' = "done"
    /\ UNCHANGED <<iterations, separation, x, y, frame_num, c, z, c_matrix,
                   m_matrix, n_matrix, i, image, displayed, iters_done, progress>>
    /\ UNCHANGED pageVars

\* line 52: pressing "Rerun" runs the script again from the top (lines 9-23)
Rerun ==
    /\ pc = "done"
    /\ iterations' \in IterationsSliderMin .. IterationsSliderMax
    /\ separation' \in SeparationSliderMin .. SeparationSliderMax
    /\ pc' = "frame"
    /\ x' = AxisX
    /\ y' = AxisY
    /\ frame_num' = -1
    /\ c' = Cx(0, 0)
    /\ z' = <<>>
    /\ c_matrix' = <<>>
    /\ m_matrix' = <<>>
    /\ n_matrix' = <<>>
    /\ i' = 0
    /\ image' = <<>>
    /\ displayed' = <<>>
    /\ iters_done' = 0
    /\ progress' = <<0>>
    /\ frame_text' = 0
    /\ UNCHANGED pageVars

Next == FrameStart \/ IterZ \/ IterMask \/ IterField \/ Display \/ Finish \/ Rerun

Spec == Init /\ [][Next]_vars

----------------------------------------------------------------------------
(* The frame body as a function of (axes, c, iterations): lines 32-43      *)
(* applied to one parameter c drawn from the lattice square, any budget    *)
(* from 1 on.                                                              *)

CSet == {Cx(re, im) : re \in -CMax .. CMax, im \in -CMax .. CMax}

InitField ==
    \E it \in 1 .. IterationsSliderMax :
    \E cc \in CSet :
        /\ pc = "field"
        /\ iterations = it
        /\ separation = SeparationSliderMin
        /\ x = AxisX
        /\ y = AxisY
        /\ frame_num = 0
        /\ c = cc
        /\ z = <<>>
        /\ c_matrix = <<>>
        /\ m_matrix = <<>>
        /\ n_matrix = <<>>
        /\ i = 0
        /\ image = <<>>
        /\ displayed = <<>>
        /\ iters_done = 0
        /\ progress = <<0>>
        /\ frame_text = 0
        /\ PagesIdle

\* lines 32-37 for the given c
FieldStart ==
    /\ pc = "field"
    /\ c' = c
    /\ AllocArrays
    /\ UNCHANGED <<iterations, separation, x, y, frame_num, image, displayed,
                   progress, frame_text>>
    /\ UNCHANGED pageVars

NextField == FieldStart \/ IterZ \/ IterMask \/ IterField \/ Display

SpecField == InitField /\ [][NextField]_vars

----------------------------------------------------------------------------
(* The frame body handed any iteration budget, also 0 and below: the page  *)
(* has no check of its own between the slider and range(iterations).       *)

InitAnyBudget ==
    \E it \in -1 .. IterationsSliderMax :
    \E cc \in CSet :
        /\ pc = "field"
        /\ iterations = it
        /\ separation = SeparationSliderMin
        /\ x = AxisX
        /\ y = AxisY
        /\ frame_num = 0
        /\ c = cc
        /\ z = <<>>
        /\ c_matrix = <<>>
        /\ m_matrix = <<>>
        /\ n_matrix = <<>>
        /\ i = 0
        /\ image = <<>>
        /\ displayed = <<>>
        /\ iters_done = 0
        /\ progress = <<0>>
        /\ frame_text = 0
        /\ PagesIdle

SpecAnyBudget == InitAnyBudget /\ [][NextField]_vars

----------------------------------------------------------------------------
(* The button actions of the exercise pages and the wrappers they call     *)
(* (openai-image.py, openai-whisper.py, videogame-proto.py).  The client   *)
(* library is opaque: one call of it is one request, which succeeds or     *)
(* raises; a response may lack the field the wrapper reads from it.        *)

Wrappers ==
    {"openai_create_image", "openai_create_image_variation",
     "generate_prompt_with_chatgpt", "vision_analyze_image",
     "openai_transcribe", "openai_translate", "text_to_speech",
     "generate_game_idea", "generate_image_from_text", "generate_speech_from_text"}

AIActions ==
    {"dalle", "variation", "chatgpt", "vision", "transcribe", "translate", "tts", "game"}

\* the wrapper a button action calls first
FirstWrapper(a) ==
    CASE a = "dalle"      -> "openai_create_image"
      [] a = "variation"  -> "openai_create_image_variation"
      [] a = "chatgpt"    -> "generate_prompt_with_chatgpt"
      [] a = "vision"     -> "vision_analyze_image"
      [] a = "transcribe" -> "openai_transcribe"
      [] a = "translate"  -> "openai_translate"
      [] a = "tts"        -> "text_to_speech"
      [] OTHER            -> "generate_game_idea"

\* the wrappers that open a local file inside their try block before the request
OpensFile(w) ==
    w \in {"openai_create_image_variation", "openai_transcribe", "openai_translate"}

\* what the except clause of the wrapper returns
FailureValue(w) ==
    IF w \in {"openai_transcribe", "openai_translate"} THEN "empty" ELSE "None"

\* ExceptClause narrowed in one wrapper
ExceptClause_Narrow(w) == IF w = "text_to_speech" THEN "KeyError" ELSE "Exception"

\* the exception class the except clause of the wrapper names
ExceptClause(w) == "Exception"

\* the requests one pass through the try block issues
RequestsPerCall(w, failed) == 1

\* the button actions whose page shows a notice of its own when the wrapper
\* returned nothing
HasElseNotice(a) == a \in {"dalle", "variation", "chatgpt", "vision"}

Event(kind, what) == <<kind, what>>

SessionUnset ==
    [game_title |-> "unset", game_genre |-> "unset", game_summary |-> "unset",
     generated_image_url |-> "unset"]

\* st.session_state as earlier presses of the button may have left it
SessionStates ==
    {SessionUnset,
     [game_title |-> "old", game_genre |-> "old", game_summary |-> "old",
      generated_image_url |-> "unset"],
     [game_title |-> "old", game_genre |-> "old", game_summary |-> "old",
      generated_image_url |-> "old"]}

\* a button of an exercise page has been pressed
InitAI ==
    /\ AnimIdle
    /\ WhisperIdle
    /\ ai_action \in AIActions
    /\ ai_pc = "call"
    /\ ai_wrapper = FirstWrapper(ai_action)
    /\ ai_requests = 0
    /\ ai_errors = 0
    /\ ai_result = "unset"
    /\ ai_raised = FALSE
    /\ ai_events = <<>>
    /\ session_state \in SessionStates
    /\ ss_before = session_state

\* the wrapper is entered
WrapperEnter ==
    /\ ai_pc = "call"
    /\ ai_requests' = 0
    /\ ai_errors' = 0
    /\ ai_result' = "unset"
    /\ ai_pc' = IF OpensFile(ai_wrapper) THEN "open" ELSE "request"
    /\ UNCHANGED <<ai_action, ai_wrapper, ai_raised, ai_events, session_state, ss_before>>
    /\ UNCHANGED <<animVars, whisperVars>>

\* with open(path, "rb") inside the try block
WrapperOpen ==
    /\ ai_pc = "open"
    /\ \/ ai_pc' = "request"
       \/ ai_pc' = "except"
    /\ UNCHANGED <<ai_action, ai_wrapper, ai_requests, ai_errors, ai_result, ai_raised,
                   ai_events, session_state, ss_before>>
    /\ UNCHANGED <<animVars, whisperVars>>

\* the client call of the try block
WrapperRequest ==
    /\ ai_pc = "request"
    /\ \E failed \in BOOLEAN :
          /\ ai_requests' = ai_requests + RequestsPerCall(ai_wrapper, failed)
          /\ ai_events' =
                IF failed
                  THEN ai_events \o <<Event("request", ai_wrapper), Event("fail", ai_wrapper)>>
                  ELSE Append(ai_events, Event("request", ai_wrapper))
          /\ ai_pc' = IF failed THEN "except" ELSE "post"
    /\ UNCHANGED <<ai_action, ai_wrapper, ai_errors, ai_result, ai_raised,
                   session_state, ss_before>>
    /\ UNCHANGED <<animVars, whisperVars>>

\* the rest of the try block: the field of the response is read (the audio
\* is streamed to the file) and returned
WrapperPost ==
    /\ ai_pc = "post"
    /\ \/ /\ ai_result' = "value"
          /\ ai_events' = ai_events
          /\ ai_pc' = "returned"
       \/ /\ ai_result' = ai_result
          /\ ai_events' = Append(ai_events, Event("fail", ai_wrapper))
          /\ ai_pc' = "except"
    /\ UNCHANGED <<ai_action, ai_wrapper, ai_requests, ai_errors, ai_raised,
                   session_state, ss_before>>
    /\ UNCHANGED <<animVars, whisperVars>>

\* except Exception as e: st.error(...); return None / ""
WrapperExcept ==
    /\ ai_pc = "except"
    /\ IF ExceptClause(ai_wrapper) = "Exception"
         THEN /\ ai_errors' = ai_errors + 1
              /\ ai_result' = FailureValue(ai_wrapper)
              /\ ai_raised' = ai_raised
              /\ ai_pc' = "returned"
         ELSE /\ ai_errors' = ai_errors
              /\ ai_result' = ai_result
              /\ ai_raised' = TRUE
              /\ ai_pc' = "crashed"
    /\ UNCHANGED <<ai_action, ai_wrapper, ai_requests, ai_events, session_state, ss_before>>
    /\ UNCHANGED <<animVars, whisperVars>>

\* the pages with one wrapper call per action: the result is shown, or the
\* page's own notice where it has one, and the script runs to its end
PageAfter ==
    /\ ai_pc = "returned"
    /\ ai_action # "game"
    /\ ai_events' =
          IF ai_result = "value" THEN Append(ai_events, Event("display", ai_wrapper))
          ELSE IF HasElseNotice(ai_action) THEN Append(ai_events, Event("notice", ai_wrapper))
          ELSE ai_events
    /\ ai_pc' = "end"
    /\ UNCHANGED <<ai_action, ai_wrapper, ai_requests, ai_errors, ai_result, ai_raised,
                   session_state, ss_before>>
    /\ UNCHANGED <<animVars, whisperVars>>

\* videogame-proto.py lines 131-160 and 174-175
GameAfterIdea ==
    /\ ai_pc = "returned"
    /\ ai_action = "game"
    /\ ai_wrapper = "generate_game_idea"
    /\ IF ai_result = "value"
         THEN /\ \E summary \in {"new", "default"} :
                    session_state' =
                        [session_state EXCEPT !.game_title = "new", !.game_genre = "new",
                                              !.game_summary = summary]
              /\ ai_events' = Append(ai_events, Event("display", ai_wrapper))
              /\ ai_wrapper' = "generate_image_from_text"
              /\ ai_pc' = "call"
         ELSE /\ session_state' = session_state
              /\ ai_events' = Append(ai_events, Event("notice", ai_wrapper))
              /\ ai_wrapper' = ai_wrapper
              /\ ai_pc' = "end"
    /\ UNCHANGED <<ai_action, ai_requests, ai_errors, ai_result, ai_raised, ss_before>>
    /\ UNCHANGED <<animVars, whisperVars>>

\* videogame-proto.py lines 161-169 and 172-173
GameAfterImage ==
    /\ ai_pc = "returned"
    /\ ai_action = "game"
    /\ ai_wrapper = "generate_image_from_text"
    /\ session_state' =
          IF ai_result = "value"
            THEN [session_state EXCEPT !.generated_image_url = "new"]
            ELSE session_state
    /\ IF session_state.game_summary # "default"
         THEN /\ ai_events' =
                    IF ai_result = "value"
                      THEN Append(ai_events, Event("display", ai_wrapper))
                      ELSE ai_events
              /\ ai_wrapper' = "generate_speech_from_text"
              /\ ai_pc' = "call"
         ELSE /\ ai_events' =
                    IF ai_result = "value"
                      THEN ai_events \o <<Event("display", ai_wrapper),
                                          Event("notice", "generate_speech_from_text")>>
                      ELSE Append(ai_events, Event("notice", "generate_speech_from_text"))
              /\ ai_wrapper' = ai_wrapper
              /\ ai_pc' = "end"
    /\ UNCHANGED <<ai_action, ai_requests, ai_errors, ai_result, ai_raised, ss_before>>
    /\ UNCHANGED <<animVars, whisperVars>>

\* videogame-proto.py lines 170-171
GameAfterSpeech ==
    /\ ai_pc = "returned"
    /\ ai_action = "game"
    /\ ai_wrapper = "generate_speech_from_text"
    /\ ai_events' =
          IF ai_result = "value" THEN Append(ai_events, Event("display", ai_wrapper))
          ELSE ai_events
    /\ ai_pc' = "end"
    /\ UNCHANGED <<ai_action, ai_wrapper, ai_requests, ai_errors, ai_result, ai_raised,
                   session_state, ss_before>>
    /\ UNCHANGED <<animVars, whisperVars>>

NextAI ==
    \/ WrapperEnter \/ WrapperOpen \/ WrapperRequest \/ WrapperPost \/ WrapperExcept
    \/ PageAfter \/ GameAfterIdea \/ GameAfterImage \/ GameAfterSpeech

SpecAI == InitAI /\ [][NextAI]_vars

----------------------------------------------------------------------------
(* The Transcription & Translation page (openai-whisper.py lines 91-124    *)
(* and 151-153).  Every session runs the script in a thread of its own     *)
(* against the same working directory; one step is one file-system call.   *)
(* An exception that no try block catches ends the run where it is raised. *)

MaxRuns == 3

FileNames == {"a.mp3", "b.mp3"}

\* the directory temp_audio as a session may find it when it connects
DirStates ==
    {[present |-> FALSE, files |-> {}]} \cup
    {[present |-> TRUE, files |-> fs] : fs \in SUBSET FileNames}

\* open(os.path.join("temp_audio", name), "wb") and f.write
FsWrite(fs, name) == [fs EXCEPT !.files = @ \cup {name}]

\* os.remove(audio_path)
FsRemove(fs, name) == [fs EXCEPT !.files = @ \ {name}]

\* not os.listdir("temp_audio")
DirEmpty(fs) == fs.files = {}

\* os.rmdir("temp_audio")
FsRmdir(fs) == [fs EXCEPT !.present = FALSE]

\* DirMissing never asking for the directory to be made again
DirMissing_Never(fs) == FALSE

\* not os.path.exists("temp_audio")
DirMissing(fs) == ~fs.present

\* os.makedirs("temp_audio")
FsMakedirs(fs) == [fs EXCEPT !.present = TRUE]

SessionStart ==
    [pc |-> "start", uploaded_file |-> "none", button |-> "none", runs |-> 0,
     text |-> "unset", failed |-> "none"]

InitWhisper(sessions) ==
    /\ AnimIdle
    /\ AIIdle
    /\ temp_audio \in DirStates
    /\ sess = [p \in sessions |-> SessionStart]

\* a step of session p that leaves the directory alone
Goto(p, label) ==
    /\ sess' = [sess EXCEPT ![p].pc = label]
    /\ temp_audio' = temp_audio

\* an uncaught exception in session p
Crash(p, what) ==
    /\ sess' = [sess EXCEPT ![p].pc = "crashed", ![p].failed = what]
    /\ temp_audio' = temp_audio

\* a script run begins: the widgets return the uploaded file (none in the
\* first run of a session) and at most one pressed button
RunStart(p) ==
    /\ sess[p].pc \in {"start", "end", "crashed"}
    /\ sess[p].runs < MaxRuns
    /\ \E f \in (IF sess[p].runs = 0 THEN {"none"} ELSE FileNames \cup {"none"}),
          b \in {"none", "transcribe", "translate"} :
          /\ f = "none" => b = "none"
          /\ sess' = [sess EXCEPT ![p] =
                        [pc |-> IF f = "none" THEN "L152" ELSE "L99",
                         uploaded_file |-> f, button |-> b, runs |-> @.runs + 1,
                         text |-> "unset", failed |-> "none"]]
    /\ temp_audio' = temp_audio
    /\ UNCHANGED <<animVars, aiVars>>

\* lines 99-103: the temporary copy is written
WriteCopy(p) ==
    /\ sess[p].pc = "L99"
    /\ IF temp_audio.present
         THEN /\ temp_audio' = FsWrite(temp_audio, sess[p].uploaded_file)
              /\ sess' = [sess EXCEPT ![p].pc =
                            IF sess[p].button = "none" THEN "L120" ELSE "open"]
         ELSE Crash(p, "write")
    /\ UNCHANGED <<animVars, aiVars>>

\* lines 27 and 49: the wrapper opens the temporary copy inside its try block
WhisperOpen(p) ==
    /\ sess[p].pc = "open"
    /\ IF temp_audio.present /\ sess[p].uploaded_file \in temp_audio.files
         THEN Goto(p, "request")
         ELSE /\ sess' = [sess EXCEPT ![p].pc = "L120", ![p].text = "empty",
                                        ![p].failed = "open"]
              /\ temp_audio' = temp_audio
    /\ UNCHANGED <<animVars, aiVars>>

\* lines 28-35 and 50-57: the request, answered or failed and caught
WhisperRequest(p) ==
    /\ sess[p].pc = "request"
    /\ \E answer \in {"text", "empty"} :
          sess' = [sess EXCEPT ![p].pc = "L120", ![p].text = answer]
    /\ temp_audio' = temp_audio
    /\ UNCHANGED <<animVars, aiVars>>

\* line 120
RemoveCopy(p) ==
    /\ sess[p].pc = "L120"
    /\ IF temp_audio.present /\ sess[p].uploaded_file \in temp_audio.files
         THEN /\ temp_audio' = FsRemove(temp_audio, sess[p].uploaded_file)
              /\ sess' = [sess EXCEPT ![p].pc = "L123"]
         ELSE Crash(p, "remove")
    /\ UNCHANGED <<animVars, aiVars>>

\* line 123
ListDir(p) ==
    /\ sess[p].pc = "L123"
    /\ IF temp_audio.present
         THEN Goto(p, IF DirEmpty(temp_audio) THEN "L124" ELSE "L152")
         ELSE Crash(p, "listdir")
    /\ UNCHANGED <<animVars, aiVars>>

\* line 124
RemoveDir(p) ==
    /\ sess[p].pc = "L124"
    /\ IF temp_audio.present /\ temp_audio.files = {}
         THEN /\ temp_audio' = FsRmdir(temp_audio)
              /\ sess' = [sess EXCEPT ![p].pc = "L152"]
         ELSE Crash(p, "rmdir")
    /\ UNCHANGED <<animVars, aiVars>>

\* line 152
CheckDir(p) ==
    /\ sess[p].pc = "L152"
    /\ Goto(p, IF DirMissing(temp_audio) THEN "L153" ELSE "end")
    /\ UNCHANGED <<animVars, aiVars>>

\* line 153
MakeDir(p) ==
    /\ sess[p].pc = "L153"
    /\ IF ~temp_audio.present
         THEN /\ temp_audio' = FsMakedirs(temp_audio)
              /\ sess' = [sess EXCEPT ![p].pc = "end"]
         ELSE Crash(p, "makedirs")
    /\ UNCHANGED <<animVars, aiVars>>

NextWhisper ==
    \/ \E p \in DOMAIN sess : RunStart(p)
    \/ \E p \in DOMAIN sess : WriteCopy(p)
    \/ \E p \in DOMAIN sess : WhisperOpen(p)
    \/ \E p \in DOMAIN sess : WhisperRequest(p)
    \/ \E p \in DOMAIN sess : RemoveCopy(p)
    \/ \E p \in DOMAIN sess : ListDir(p)
    \/ \E p \in DOMAIN sess : RemoveDir(p)
    \/ \E p \in DOMAIN sess : CheckDir(p)
    \/ \E p \in DOMAIN sess : MakeDir(p)

\* one session
InitWhisper1 == InitWhisper({1})

SpecWhisper1 == InitWhisper1 /\ [][NextWhisper]_vars

\* two sessions in the same working directory
InitWhisper2 == InitWhisper({1, 2})

SpecWhisper2 == InitWhisper2 /\ [][NextWhisper]_vars

----------------------------------------------------------------------------
(* What the claims are stated with.                                        *)

\* the starting value of grid position p = <<row, column>>
Z0(p) == Cx(x[p[2]], y[p[1]])

InLoop == pc \in {"L38", "L39", "L40"}

\* the arrays of a frame exist
Allocated == pc \in {"L38", "L39", "L40", "L43"} \/ Len(displayed) > 0

\* the per-point algorithm as the specification words it: test |z| > 2, then update
RECURSIVE TestThenUpdate(_, _, _, _)
TestThenUpdate(w, cc, k, maxIter) ==
    IF k >= maxIter THEN maxIter - 1
    ELSE IF AbsGt2(w) THEN (IF k > 0 THEN k - 1 ELSE 0)
    ELSE TestThenUpdate(CAdd(CMul(w, w), cc), cc, k + 1, maxIter)

\* the same algorithm with the order of its two steps exchanged: update, then test
RECURSIVE UpdateThenTest(_, _, _, _)
UpdateThenTest(w, cc, k, maxIter) ==
    IF k >= maxIter THEN maxIter - 1
    ELSE LET w2 == CAdd(CMul(w, w), cc)
         IN  IF AbsGt2(w2) THEN (IF k > 0 THEN k - 1 ELSE 0)
             ELSE UpdateThenTest(w2, cc, k + 1, maxIter)

\* the k-th iterate of w under z -> z*z + cc, held at its first iterate of
\* magnitude > 2 (the iterates after that one play no part in "first")
RECURSIVE Orbit(_, _, _)
Orbit(w, cc, k) ==
    IF k = 0 \/ AbsGt2(w) THEN w ELSE Orbit(CAdd(CMul(w, w), cc), cc, k - 1)

SetMin(S) == CHOOSE v \in S : \A u \in S : v <= u

\* the indices k < maxIter whose iterate z_k has magnitude > 2 (z_0 the start value)
ExceedsAtIterate(w, cc, maxIter) == {k \in 0 .. maxIter - 1 : AbsGt2(Orbit(w, cc, k))}

\* the loop indices k < maxIter after whose update the magnitude is > 2
ExceedsAfterUpdate(w, cc, maxIter) == {k \in 0 .. maxIter - 1 : AbsGt2(Orbit(w, cc, k + 1))}

SmallestOr(S, dflt) == IF S = {} THEN dflt ELSE SetMin(S)

OneBehind(S, dflt) == IF S = {} THEN dflt ELSE IF SetMin(S) > 0 THEN SetMin(S) - 1 ELSE 0

\* the fractions of the displayed image
IsZero(q) == q.den # 0 /\ q.num = 0
IsOne(q) == q.den # 0 /\ q.num = q.den
InUnit(q) == q.den > 0 /\ 0 <= q.num /\ q.num <= q.den

\* lines 32-40 run on the grid positions ps alone
RECURSIVE RunLoop(_, _, _, _, _, _)
RunLoop(zz, cm, mm, nn, k, iters) ==
    IF k >= iters THEN nn
    ELSE LET z2 == StepZ(zz, mm, cm)
             m2 == StepM(z2, mm)
         IN  RunLoop(z2, cm, m2, StepN(nn, m2, k), k + 1, iters)

BandField(ps) ==
    RunLoop(AllocZ(x, y, ps), AllocC(c, ps), AllocM(ps), AllocN(ps), 0, iterations)

\* the parts a frame may be split into: every band of rows, and every single point
Bands == {b \X Cols : b \in SUBSET Rows \ {{}}} \cup {{p} : p \in Grid}

YSymmetric == \A r \in Rows : y[n - 1 - r] = -y[r]

FieldVaries == \E p \in Grid, q \in Grid : n_matrix[p] # n_matrix[q]

----------------------------------------------------------------------------
(* The claims.                                                             *)

\* C1 as stated: after the loop every field value is the result of the
\* specified per-point algorithm, which tests |z| > 2 BEFORE updating z.
C1_TestBeforeUpdate ==
    pc = "L43" =>
        \A p \in Grid : n_matrix[p] = TestThenUpdate(Z0(p), c, 0, iterations)

\* C1 amended: after the loop every field value is the result of the per-point
\* algorithm that updates z = z*z + c and THEN tests |z| > 2, recording i - 1
\* (0 when i = 0) at the first i where the test succeeds, else maxIter - 1.
C1_UpdateBeforeTest ==
    pc = "L43" =>
        \A p \in Grid : n_matrix[p] = UpdateThenTest(Z0(p), c, 0, iterations)

\* a field with a point that escaped at the third pass or later and one that never did
C1_Witness ==
    /\ pc = "L43"
    /\ \E p \in Grid : ~m_matrix[p] /\ n_matrix[p] >= 1
    /\ \E p \in Grid : m_matrix[p]

\* C2 as stated: after the loop every field value is the smallest iteration
\* index i < maxIter at which the orbit magnitude first exceeds 2, or
\* maxIter - 1 if there is none; the index read as that of the iterate z_i or
\* as that of the loop pass whose update produced it, whichever fits the point.
C2_SmallestIndex ==
    pc = "L43" =>
        \A p \in Grid :
            \/ n_matrix[p] = SmallestOr(ExceedsAtIterate(Z0(p), c, iterations), iterations - 1)
            \/ n_matrix[p] = SmallestOr(ExceedsAfterUpdate(Z0(p), c, iterations), iterations - 1)

\* C2 amended: after the loop every field value is one less than the smallest
\* loop index i < maxIter after whose update the orbit magnitude exceeds 2
\* (0 when that index is 0), or maxIter - 1 if there is none.
C2_OneBehindSmallestIndex ==
    pc = "L43" =>
        \A p \in Grid :
            n_matrix[p] = OneBehind(ExceedsAfterUpdate(Z0(p), c, iterations), iterations - 1)

\* a point whose magnitude first exceeds 2 after the update of pass 2 or later
C2_Witness ==
    /\ pc = "L43"
    /\ \E p \in Grid :
          /\ ExceedsAfterUpdate(Z0(p), c, iterations) # {}
          /\ SetMin(ExceedsAfterUpdate(Z0(p), c, iterations)) >= 2

\* C3: during and after the loop every entry of n_matrix is an integer in
\* [0, maxIter - 1].
C3_FieldInRange ==
    Allocated => \A p \in DOMAIN n_matrix : n_matrix[p] \in 0 .. iterations - 1

\* the last pass has written maxIter - 1, and a point that escaped at once holds 0
C3_Witness ==
    /\ pc = "L43"
    /\ iterations >= 2
    /\ \E p \in Grid : n_matrix[p] = iterations - 1
    /\ \E p \in Grid : n_matrix[p] = 0

\* C4: with c = 0 the grid point at the origin is never marked as escaped, and
\* its field value after the loop is maxIter - 1.
C4_OriginNeverEscapes ==
    (Allocated /\ c = Cx(0, 0)) =>
        \A p \in Grid :
            Z0(p) = Cx(0, 0) =>
                /\ m_matrix[p]
                /\ pc = "L43" => n_matrix[p] = iterations - 1

\* the loop has ended for c = 0 on a grid that holds the origin
C4_Witness ==
    /\ pc = "L43"
    /\ c = Cx(0, 0)
    /\ iterations >= 2
    /\ \E p \in Grid : Z0(p) = Cx(0, 0)

\* C5: with c = 0 every grid point with |z0| > 2 has field value 0 after the loop.
C5_OutsideIsZero ==
    (pc = "L43" /\ c = Cx(0, 0)) =>
        \A p \in Grid : AbsGt2(Z0(p)) => n_matrix[p] = 0

\* the loop has ended for c = 0 on a grid with a point of magnitude > 2
C5_Witness ==
    /\ pc = "L43"
    /\ c = Cx(0, 0)
    /\ iterations >= 2
    /\ \E p \in Grid : AbsGt2(Z0(p))

\* C6: for real c and a y axis symmetric about 0 the computed field is the
\* same in row i and in row H - 1 - i.
C6_ReflectionSymmetry ==
    (pc = "L43" /\ c.im = 0 /\ YSymmetric) =>
        \A r \in Rows : \A k \in Cols : n_matrix[<<r, k>>] = n_matrix[<<n - 1 - r, k>>]

\* a real c # 0 whose field differs from one row to another
C6_Witness ==
    /\ pc = "L43"
    /\ c.im = 0
    /\ c.re # 0
    /\ YSymmetric
    /\ \E r \in Rows : \E k \in Cols : n_matrix[<<r, k>>] # n_matrix[<<0, k>>]

\* C7: for a field with maximum > 0 the displayed image is exactly 0 where the
\* field is at its maximum, exactly 1 where it is 0, and in [0, 1] elsewhere.
C7_Normalization ==
    (Len(displayed) > 0 /\ pc # "L43" /\ ~InLoop /\ \E q \in Grid : n_matrix[q] > 0) =>
        \A p \in Grid :
            /\ (\A q \in Grid : n_matrix[q] <= n_matrix[p]) => IsZero(image[p])
            /\ n_matrix[p] = 0 => IsOne(image[p])
            /\ InUnit(image[p])

\* an image shown of a field that holds 0, its maximum and a value in between
C7_Witness ==
    /\ Len(displayed) > 0 /\ pc # "L43" /\ ~InLoop
    /\ \E p \in Grid, q \in Grid, r \in Grid :
          /\ n_matrix[p] = 0
          /\ n_matrix[p] < n_matrix[q]
          /\ n_matrix[q] < n_matrix[r]

\* C8: the field of a frame is a function of the grid axes, the frame's c and
\* maxIter alone, whatever frames came before it: the axes are those built at
\* the start of the run, the working arrays at the head of a frame's loop are
\* the fresh ones of the original lattice, and the field after the loop is the
\* per-point escape value of the original lattice point.
C8_FrameIsPure ==
    /\ x = AxisX
    /\ y = AxisY
    /\ (pc = "L38" /\ i = 0) =>
          \A p \in Grid :
              /\ z[p] = Cx(AxisX[p[2]], AxisY[p[1]])
              /\ m_matrix[p]
              /\ n_matrix[p] = 0
              /\ c_matrix[p] = c
    /\ pc = "L43" =>
          \A p \in Grid :
              n_matrix[p] =
                  UpdateThenTest(Cx(AxisX[p[2]], AxisY[p[1]]),
                                 FrameC(separation, FrameAngle(frame_num)), 0, iterations)

\* a late frame with the c of frame 0, computed after frames with other c whose
\* arrays were left escaped and filled
C8_Witness ==
    /\ pc = "L43"
    /\ frame_num > NumFrames \div 2
    /\ c = FrameC(separation, FrameAngle(0))
    /\ \E k \in 1 .. frame_num - 1 : FrameC(separation, FrameAngle(k)) # c
    /\ FieldVaries

\* C9: within a frame the field value of a point depends on that point alone:
\* the loop run on any band of rows, or on any single point, by itself gives at
\* its positions the values of the whole-grid masked computation.
C9_BandsAgree ==
    pc = "L43" =>
        \A b \in Bands : \A p \in b : BandField(b)[p] = n_matrix[p]

\* a field over several rows in which some points escaped and others did not
C9_Witness ==
    /\ pc = "L43"
    /\ iterations >= 2
    /\ n >= 2
    /\ \E p \in Grid, q \in Grid : m_matrix[p] /\ ~m_matrix[q] /\ p[1] # q[1]

\* C10: in one run exactly 100 frames are displayed, in the order 0..99; frame k
\* is displayed after all maxIter passes of frame k and before any pass of
\* frame k + 1.
C10_FramesInOrder ==
    /\ \A k \in 1 .. Len(displayed) : displayed[k] = k - 1
    /\ pc = "done" => Len(displayed) = 100
    /\ pc \in {"L38", "L39", "L40", "L43"} => Len(displayed) = frame_num
    /\ pc = "L43" => iters_done = iterations
    /\ Len(displayed) > 0 /\ pc \in {"frame", "L46", "done"} =>
          /\ Len(displayed) = frame_num + 1
          /\ iters_done = iterations

\* the run has ended with the last frame shown
C10_Witness ==
    /\ pc = "done"
    /\ displayed[Len(displayed)] = NumFrames - 1
    /\ iterations >= 2

\* C11: the values handed to the progress display never decrease, start at 0
\* and have reached N = 100 by the time the last frame has been processed.
C11_ProgressReachesN ==
    /\ progress[1] = 0
    /\ \A k \in 1 .. Len(progress) - 1 : progress[k] <= progress[k + 1]
    /\ pc \in {"L46", "done"} => progress[Len(progress)] = 100

FailedIn(w) == \E k \in DOMAIN ai_events : ai_events[k] = Event("fail", w)

\* C13: every wrapper issues at most one request per invocation; when the
\* request fails the wrapper catches the exception, shows one error message
\* of its own, returns its failure value (None or the empty string) without
\* a second request, and nothing propagates: the page script always has a
\* next step until it has reached its end.
C13_OneRequestCaughtFailure ==
    /\ ai_requests <= 1
    /\ ~ai_raised
    /\ (ai_pc \in {"returned", "end"} /\ FailedIn(ai_wrapper)) =>
          /\ ai_requests = 1
          /\ ai_errors = 1
          /\ ai_result = FailureValue(ai_wrapper)
    /\ (ai_action # "none" /\ ai_pc # "end") => ENABLED NextAI

C13_Witness ==
    /\ ai_pc = "end"
    /\ ai_wrapper = "openai_translate"
    /\ FailedIn(ai_wrapper)
    /\ ai_errors = 1
    /\ ai_result = "empty"

\* C14: once a remote call of the game-concept action has failed, no later
\* step of the action issues a request or displays a result, and the action
\* ends with st.session_state as it was before the button was pressed.
C14_FailureAbortsAction ==
    ai_action = "game" =>
        /\ \A k \in DOMAIN ai_events :
              ai_events[k][1] = "fail" =>
                  \A j \in k + 1 .. Len(ai_events) :
                      ai_events[j][1] \notin {"request", "display"}
        /\ (ai_pc = "end" /\ \E k \in DOMAIN ai_events : ai_events[k][1] = "fail") =>
              session_state = ss_before

\* C15: in a single session whose first run has no uploaded file, every run
\* with an uploaded file finds temp_audio present when it writes the
\* temporary copy, no step of it fails, and it ends with the temporary copy
\* deleted and temp_audio present, whichever button was pressed and however
\* the remote call ended.
C15_RunLeavesDirectoryReady ==
    \A p \in DOMAIN sess :
        /\ sess[p].pc = "L99" => temp_audio.present
        /\ sess[p].pc # "crashed"
        /\ sess[p].failed = "none"
        /\ (sess[p].pc = "end" /\ sess[p].uploaded_file # "none") =>
              /\ temp_audio.present
              /\ sess[p].uploaded_file \notin temp_audio.files

C15_Witness ==
    \E p \in DOMAIN sess :
        /\ sess[p].pc = "end"
        /\ sess[p].uploaded_file # "none"
        /\ sess[p].button = "translate"
        /\ sess[p].runs = MaxRuns

\* C16: with two sessions on the same working directory no step of either
\* session fails, under every interleaving: the write finds temp_audio, the
\* wrapper finds the temporary copy, os.remove finds its file, os.rmdir finds
\* an empty directory.
C16_NoStepFails ==
    \A p \in DOMAIN sess : sess[p].failed \notin {"write", "open", "remove", "rmdir"}

=============================================================================
